---- MODULE Spec2Model ----
(***************************************************************************)
(* Engine lifecycle, conversation replay and chat-turn pipeline of the     *)
(* hello-webllm single page application (src/src/App.tsx).                 *)
(*                                                                         *)
(* The component is a React function component: every handler is a closure *)
(* over the state values of the render that created it.  A handler that    *)
(* suspends at an await resumes with the values it captured, so every      *)
(* suspended call carries the captured values it reads after resuming.     *)
(* One action is one run-to-suspension piece of a handler together with    *)
(* the effect that persists the message list when setMessages was called.  *)
(***************************************************************************)
EXTENDS Naturals, Sequences, FiniteSets

\* ------------------------------------------------------------------ bounds
\* load requests issued to the model runtime in one session
MaxLoads == 3
\* chat-completion requests issued in one session
MaxTurns == 2
\* clearStorage calls suspended at the cache purge at the same time
MaxPurges == 2
\* length of the log found in localStorage when the session starts
MaxStored == 2

\* ------------------------------------------------------------- data model
NoEngine == 0

Roles == {"assistant", "user"}

\* texts the user can type (the input is `required`, so never empty)
UserInputs == {"hi"}

\* choice.message.content of a reply: a text, or empty / absent
ReplyContents == {"ok", ""}

\* choice.message.role of a reply
ReplyRoles == {"assistant"}

Placeholder == "Unable to prduce response!"

SystemPrompt == [role |-> "system", content |-> "You are a helpful AI assistant."]

Msg(r, c) == [role |-> r, content |-> c]

RECURSIVE SeqsUpTo(_, _)
SeqsUpTo(S, n) ==
  IF n = 0 THEN {<<>>}
  ELSE LET shorter == SeqsUpTo(S, n - 1)
       IN shorter \cup {Append(s, x) : s \in {t \in shorter : Len(t) = n - 1}, x \in S}

\* ----------------------------------------------- localStorage / JSON text
\* The item stored under messagesRepoKey is a string or null.  A string is
\* either the JSON text of a message array or text JSON.parse throws on.
Absent == [kind |-> "null", val |-> <<>>]

Malformed == [kind |-> "garbage", val |-> <<>>]

JSONstringify(msgs) == [kind |-> "json", val |-> msgs]

\* msgs || "[]"
OrEmptyArray(item) == IF item.kind = "null" THEN JSONstringify(<<>>) ELSE item

\* JSON.parse: the parsed array, or a throw
JSONparse(text) ==
  IF text.kind = "json" THEN [threw |-> FALSE, val |-> text.val]
  ELSE [threw |-> TRUE, val |-> <<>>]

StoredMessages == {Msg("user", "hi"), Msg("assistant", "ok")}

InitialRepo ==
  {Absent, Malformed} \cup {JSONstringify(s) : s \in SeqsUpTo(StoredMessages, MaxStored)}

VARIABLES
  engine,                 \* useState engine: NoEngine (null) or an engine handle
  engineLoadingProgress,  \* useState progress text
  messages,               \* useState messages: the published log
  processingMsg,          \* useState busy flag
  loadingStatus,          \* sessionStorage[loadEngineProgressKey] = "true"
  messagesRepo,           \* localStorage[messagesRepoKey]
  loads,                  \* prepareEngine calls suspended at CreateMLCEngine
  completions,            \* processMsg calls suspended at completions.create
  purges,                 \* clearStorage calls suspended at the cache purge
  loadsIssued,            \* CreateMLCEngine calls made so far
  turnsIssued,            \* completions.create calls made so far
  lastOp                  \* the handler piece that ran last

vars == <<engine, engineLoadingProgress, messages, processingMsg, loadingStatus,
          messagesRepo, loads, completions, purges, loadsIssued, turnsIssued, lastOp>>

Init ==
  /\ engine = NoEngine
  /\ engineLoadingProgress = ""
  /\ messages = <<>>
  /\ processingMsg = FALSE
  /\ loadingStatus = FALSE
  /\ messagesRepo \in InitialRepo
  /\ loads = {}
  /\ completions = {}
  /\ purges = 0
  /\ loadsIssued = 0
  /\ turnsIssued = 0
  /\ lastOp = "render"

\* --------------------------------------------------------------- helpers
\* the effect without its length test: an empty list is written too
PersistEffect_always(msgs, item) == JSONstringify(msgs)

\* the effect without its dependency on messages: nothing is ever written
PersistEffect_never(msgs, item) == item

\* useEffect on [messages]: runs after a render in which setMessages was
\* called; writes the full list unless it is empty.
PersistEffect(msgs, item) ==
  IF Len(msgs) < 1 THEN item ELSE JSONstringify(msgs)

\* the prompt of a completion request
Prompt(msgList) ==
  <<SystemPrompt>> \o [i \in 1..Len(msgList) |-> Msg(msgList[i].role, msgList[i].content)]

\* parsedMsgs.length > 0 && parsedMsgs.at(-1)?.role === "user"
LastIsUser(msgList) == Len(msgList) > 0 /\ msgList[Len(msgList)].role = "user"

\* processMsg up to its await: eng is the engine value its closure captured.
\* Gives the busy flag, the suspended calls and the request count after it.
processMsg(eng, msgList, busy, calls, issued) ==
  IF eng = NoEngine
  THEN [busy |-> busy, calls |-> calls, issued |-> issued]
  ELSE [busy |-> TRUE,
        calls |-> calls \cup {[id |-> issued + 1, eng |-> eng, prompt |-> Prompt(msgList)]},
        issued |-> issued + 1]

\* the message appended for a reply
ReplyMsg(role, content) == Msg(role, IF content = "" THEN Placeholder ELSE content)

\* loadingStatus === "true": another load is presumed in flight
GuardBlocks(status) == status

\* setMessages((p) => [...p, ...parsedMsgs]) in place of setMessages(parsedMsgs)
Published_append(parsed, current) ==
  IF parsed.threw THEN current ELSE current \o parsed.val

\* try { setMessages(JSON.parse(...)) } catch {}: the log published by the
\* replay driver, given the log published before
Published(parsed, current) == IF parsed.threw THEN current ELSE parsed.val

\* the first render has been committed and its effects have run
Mounted == lastOp # "render"

\* the Start button is rendered
StartOffered == Mounted /\ engine = NoEngine /\ engineLoadingProgress = ""

\* the chat view (Delete data button, form) is rendered
ChatOffered == engine # NoEngine

\* ---------------------------------------------------------------- actions
\* the effects of the first render: the persist effect sees the empty list
Mount ==
  /\ ~Mounted
  /\ messagesRepo' = PersistEffect(messages, messagesRepo)
  /\ lastOp' = "mount"
  /\ UNCHANGED <<engine, engineLoadingProgress, messages, processingMsg, loadingStatus,
                 loads, completions, purges, loadsIssued, turnsIssued>>

\* prepareEngine up to the await of CreateMLCEngine (click on Start)
prepareEngine ==
  /\ StartOffered
  /\ loadsIssued < MaxLoads
  /\ IF GuardBlocks(loadingStatus)
     THEN /\ lastOp' = "startNoop"
          /\ UNCHANGED <<loadingStatus, loads, loadsIssued>>
     ELSE /\ loadingStatus' = TRUE
          /\ loads' = loads \cup {[id |-> loadsIssued + 1, engine |-> engine]}
          /\ loadsIssued' = loadsIssued + 1
          /\ lastOp' = "start"
  /\ UNCHANGED <<engine, engineLoadingProgress, messages, processingMsg,
                 messagesRepo, completions, purges, turnsIssued>>

\* initProgressCallback of a load in flight
initProgressCallback(l) ==
  /\ l \in loads
  /\ engineLoadingProgress' = "loading"
  /\ lastOp' = "progress"
  /\ UNCHANGED <<engine, messages, processingMsg, loadingStatus, messagesRepo,
                 loads, completions, purges, loadsIssued, turnsIssued>>

\* the finally block of prepareEngine after the guard removal: replay driver
PrepareEngineFinally(l) ==
  LET parsed == JSONparse(OrEmptyArray(messagesRepo))
      replay == (~parsed.threw) /\ LastIsUser(parsed.val)
      p == IF replay
           THEN processMsg(l.engine, parsed.val, processingMsg, completions, turnsIssued)
           ELSE [busy |-> processingMsg, calls |-> completions, issued |-> turnsIssued]
  IN /\ messages' = Published(parsed, messages)
     /\ messagesRepo' = IF parsed.threw THEN messagesRepo
                        ELSE PersistEffect(Published(parsed, messages), messagesRepo)
     /\ processingMsg' = p.busy
     /\ completions' = p.calls
     /\ turnsIssued' = p.issued
     /\ loads' = loads \ {l}
     /\ UNCHANGED <<purges, loadsIssued>>

\* CreateMLCEngine resolves
LoadResolve(l) ==
  /\ l \in loads
  /\ engine' = l.id
  /\ engineLoadingProgress' = ""
  /\ loadingStatus' = FALSE
  /\ PrepareEngineFinally(l)
  /\ lastOp' = "loadOk"

\* the guard removal placed after setEngine in the try block, not in finally
LoadReject_keepGuard(l) ==
  /\ l \in loads
  /\ UNCHANGED <<engine, engineLoadingProgress, loadingStatus>>
  /\ PrepareEngineFinally(l)
  /\ lastOp' = "loadFail"

\* CreateMLCEngine rejects
LoadReject(l) ==
  /\ l \in loads
  /\ UNCHANGED <<engine, engineLoadingProgress>>
  /\ loadingStatus' = FALSE
  /\ PrepareEngineFinally(l)
  /\ lastOp' = "loadFail"

\* localStorage.removeItem placed before the await of the cache purge
clearStorage_removeFirst ==
  /\ ChatOffered
  /\ purges < MaxPurges
  /\ purges' = purges + 1
  /\ messagesRepo' = Absent
  /\ lastOp' = "resetCall"
  /\ UNCHANGED <<engine, engineLoadingProgress, messages, processingMsg, loadingStatus,
                 loads, completions, loadsIssued, turnsIssued>>

\* clearStorage up to the await of deleteModelAllInfoInCache (click on Delete data)
clearStorage ==
  /\ ChatOffered
  /\ purges < MaxPurges
  /\ purges' = purges + 1
  /\ lastOp' = "resetCall"
  /\ UNCHANGED <<engine, engineLoadingProgress, messages, processingMsg, loadingStatus,
                 messagesRepo, loads, completions, loadsIssued, turnsIssued>>

\* clearStorage without setProcessingMsg(false)
ClearStorageResume_keepBusy ==
  /\ purges > 0
  /\ purges' = purges - 1
  /\ messagesRepo' = PersistEffect(<<>>, Absent)
  /\ loadingStatus' = FALSE
  /\ engineLoadingProgress' = ""
  /\ messages' = <<>>
  /\ engine' = NoEngine
  /\ lastOp' = "reset"
  /\ UNCHANGED <<processingMsg, loads, completions, loadsIssued, turnsIssued>>

\* deleteModelAllInfoInCache resolves: the rest of clearStorage
ClearStorageResume ==
  /\ purges > 0
  /\ purges' = purges - 1
  /\ messagesRepo' = PersistEffect(<<>>, Absent)
  /\ loadingStatus' = FALSE
  /\ engineLoadingProgress' = ""
  /\ messages' = <<>>
  /\ processingMsg' = FALSE
  /\ engine' = NoEngine
  /\ lastOp' = "reset"
  /\ UNCHANGED <<loads, completions, loadsIssued, turnsIssued>>

\* deleteModelAllInfoInCache rejects: clearStorage ends there
ClearStorageAbort ==
  /\ purges > 0
  /\ purges' = purges - 1
  /\ lastOp' = "resetAbort"
  /\ UNCHANGED <<engine, engineLoadingProgress, messages, processingMsg, loadingStatus,
                 messagesRepo, loads, completions, loadsIssued, turnsIssued>>

\* sendMsg up to the await inside processMsg (form submit)
sendMsg(msgInput) ==
  /\ ChatOffered
  /\ ~processingMsg
  /\ turnsIssued < MaxTurns
  /\ LET newMsgList == Append(messages, Msg("user", msgInput))
         p == processMsg(engine, newMsgList, processingMsg, completions, turnsIssued)
     IN /\ messages' = newMsgList
        /\ messagesRepo' = PersistEffect(newMsgList, messagesRepo)
        /\ processingMsg' = p.busy
        /\ completions' = p.calls
        /\ turnsIssued' = p.issued
  /\ lastOp' = "submit"
  /\ UNCHANGED <<engine, engineLoadingProgress, loadingStatus, loads, purges, loadsIssued>>

\* setMessages([...msgList, reply]) in place of the functional update
CompletionResolve_fromArg(c, role, content) ==
  /\ c \in completions
  /\ LET appended == Append(Tail(c.prompt), ReplyMsg(role, content))
     IN /\ messages' = appended
        /\ messagesRepo' = PersistEffect(appended, messagesRepo)
  /\ processingMsg' = FALSE
  /\ completions' = completions \ {c}
  /\ lastOp' = "reply"
  /\ UNCHANGED <<engine, engineLoadingProgress, loadingStatus, loads, purges,
                 loadsIssued, turnsIssued>>

\* completions.create resolves: the rest of processMsg
CompletionResolve(c, role, content) ==
  /\ c \in completions
  /\ LET appended == Append(messages, ReplyMsg(role, content))
     IN /\ messages' = appended
        /\ messagesRepo' = PersistEffect(appended, messagesRepo)
  /\ processingMsg' = FALSE
  /\ completions' = completions \ {c}
  /\ lastOp' = "reply"
  /\ UNCHANGED <<engine, engineLoadingProgress, loadingStatus, loads, purges,
                 loadsIssued, turnsIssued>>

\* setProcessingMsg(false) placed at the end of the try block, not in finally
CompletionReject_keepBusy(c) ==
  /\ c \in completions
  /\ completions' = completions \ {c}
  /\ lastOp' = "replyFail"
  /\ UNCHANGED <<engine, engineLoadingProgress, messages, processingMsg, loadingStatus,
                 messagesRepo, loads, purges, loadsIssued, turnsIssued>>

\* completions.create rejects: the catch and finally of processMsg
CompletionReject(c) ==
  /\ c \in completions
  /\ processingMsg' = FALSE
  /\ completions' = completions \ {c}
  /\ lastOp' = "replyFail"
  /\ UNCHANGED <<engine, engineLoadingProgress, messages, loadingStatus, messagesRepo,
                 loads, purges, loadsIssued, turnsIssued>>

Next ==
  \/ Mount
  \/ prepareEngine
  \/ \E l \in loads : initProgressCallback(l)
  \/ \E l \in loads : LoadResolve(l)
  \/ \E l \in loads : LoadReject(l)
  \/ clearStorage
  \/ ClearStorageResume
  \/ ClearStorageAbort
  \/ \E t \in UserInputs : sendMsg(t)
  \/ \E c \in completions, r \in ReplyRoles, t \in ReplyContents : CompletionResolve(c, r, t)
  \/ \E c \in completions : CompletionReject(c)

Spec == Init /\ [][Next]_vars

\* the load call with this id resolves or rejects
LoadEnds(id) ==
  \E l \in loads : l.id = id /\ (LoadResolve(l) \/ LoadReject(l))

\* the completion call with this id resolves or rejects
CompletionEnds(id) ==
  \E c \in completions :
    /\ c.id = id
    /\ \/ \E r \in ReplyRoles, t \in ReplyContents : CompletionResolve(c, r, t)
       \/ CompletionReject(c)

\* every external load call and every completion call eventually settles
ExternalCallsSettle ==
  /\ \A i \in 1..MaxLoads : WF_vars(LoadEnds(i))
  /\ \A i \in 1..MaxTurns : WF_vars(CompletionEnds(i))

\* stored items the fair specification starts from: none, and a log with an
\* unanswered user turn (the item does not influence when a flag is released)
FairRepo == {Absent, JSONstringify(<<Msg("user", "hi")>>)}

InitFair == Init /\ messagesRepo \in FairRepo

SpecFair == InitFair /\ [][Next]_vars /\ ExternalCallsSettle

\* ------------------------------------------------------------- type check
TypeOK ==
  /\ engine \in 0..MaxLoads
  /\ engineLoadingProgress \in {"", "loading"}
  /\ processingMsg \in BOOLEAN
  /\ loadingStatus \in BOOLEAN
  /\ purges \in 0..MaxPurges
  /\ loadsIssued \in 0..MaxLoads
  /\ turnsIssued \in 0..MaxTurns
  /\ \A i \in 1..Len(messages) : messages[i].role \in Roles

\* ---------------------------------------------------------------- claims
\* the step is a call of prepareEngine
StartStep == lastOp' \in {"start", "startNoop"}

\* the stored item is a log whose last entry is an unanswered user turn
Unanswered(item) ==
  item.kind = "json" /\ Len(item.val) > 0 /\ item.val[Len(item.val)].role = "user"

\* what load() of the store yields: the stored log, or the empty log
StoredLog(item) == IF item.kind = "json" THEN item.val ELSE <<>>

\* C1: a call of start() made while the load call of an earlier start() is
\* still in flight is a no-op: no load request is issued and the load guard,
\* the engine handle and the published log stay as they are.
C1_SecondStartIsNoop ==
  [][(StartStep /\ loads # {})
       => UNCHANGED <<loadingStatus, engine, messages, messagesRepo, loads, loadsIssued>>]_vars

\* C2: when the engine load succeeds and the persisted log ends with a user
\* entry, the replay driver issues exactly one completion request, on a
\* Ready engine, for that log.
C2_ReplayIssuesOneCompletion ==
  [][(lastOp' = "loadOk" /\ Unanswered(messagesRepo))
       => /\ turnsIssued' = turnsIssued + 1
          /\ \E c \in completions' \ completions :
               c.eng # NoEngine /\ c.prompt = Prompt(StoredLog(messagesRepo))]_vars

\* C3: when the engine load succeeds and the persisted log is empty, absent,
\* malformed or ends with a non-user entry, no completion request is issued
\* and the published log is the persisted log (empty if absent or malformed).
C3_NoReplayWhenAnswered ==
  [][(lastOp' = "loadOk" /\ ~Unanswered(messagesRepo))
       => /\ completions' = completions
          /\ turnsIssued' = turnsIssued
          /\ messages' = StoredLog(messagesRepo)]_vars

C3_Witness ==
  /\ lastOp = "loadOk"
  /\ engine # NoEngine
  /\ messagesRepo = JSONstringify(<<Msg("user", "hi"), Msg("assistant", "ok")>>)
  /\ messages = StoredLog(messagesRepo)
  /\ completions = {}
  /\ turnsIssued = 0

\* C4: the length of the published log never decreases in a step, except in
\* the step in which clearStorage clears it.
C4_AppendOnly ==
  [][Len(messages') >= Len(messages) \/ lastOp' = "reset"]_vars

C4_Witness ==
  /\ lastOp = "reply"
  /\ Len(messages) >= 2
  /\ messages[Len(messages)].role = "assistant"

\* C5: the step that completes clearStorage leaves the persisted log absent,
\* the published log empty, the engine handle unset, the load guard clear and
\* the busy flag false; a call of start() right after it issues a load request.
C5_ResetCompleteness ==
  [][/\ lastOp' = "reset"
          => /\ messagesRepo' = Absent
             /\ StoredLog(messagesRepo') = <<>>
             /\ messages' = <<>>
             /\ engine' = NoEngine
             /\ ~loadingStatus'
             /\ ~processingMsg'
     /\ (lastOp = "reset" /\ StartStep)
          => /\ loadsIssued' = loadsIssued + 1
             /\ \E l \in loads' \ loads : l.id = loadsIssued'
             /\ loadingStatus']_vars

C5_Witness ==
  /\ lastOp = "reset"
  /\ completions # {}
  /\ messagesRepo = Absent
  /\ messages = <<>>
  /\ engine = NoEngine

\* C6: the persisted value is never replaced by an empty log: a step after
\* which the published log is empty leaves the stored item as it was, unless
\* it is the step of clearStorage, which alone removes the item.
C6_EmptyNeverPersisted ==
  [][/\ (Len(messages') = 0 /\ lastOp' # "reset") => messagesRepo' = messagesRepo
     /\ (messagesRepo' # messagesRepo /\ StoredLog(messagesRepo') = <<>>)
          => (lastOp' = "reset" /\ messagesRepo' = Absent)]_vars

C6_Witness ==
  /\ lastOp = "mount"
  /\ messages = <<>>
  /\ messagesRepo = JSONstringify(<<Msg("user", "hi")>>)

\* C7: when a completion call rejects, the step appends nothing: published
\* and persisted log are unchanged, the busy flag is false afterwards, the
\* engine handle is kept and no request is issued.
C7_CompletionFailureSwallowed ==
  [][lastOp' = "replyFail"
       => /\ messages' = messages
          /\ messagesRepo' = messagesRepo
          /\ ~processingMsg'
          /\ engine' = engine
          /\ turnsIssued' = turnsIssued
          /\ Cardinality(completions') = Cardinality(completions) - 1
          /\ completions' \subseteq completions
          /\ loads' = loads /\ loadsIssued' = loadsIssued]_vars

C7_Witness ==
  /\ lastOp = "replyFail"
  /\ engine # NoEngine
  /\ ~processingMsg
  /\ completions = {}
  /\ LastIsUser(messages)
  /\ messagesRepo = JSONstringify(messages)

\* C8: when the load call rejects, the engine handle is left as it was
\* (unset), the load guard is clear afterwards and no load is issued by the
\* step; a call of start() right after it issues a new load request.
C8_LoadFailureUnloads ==
  [][/\ lastOp' = "loadFail"
          => /\ engine' = engine
             /\ ~loadingStatus'
             /\ loadsIssued' = loadsIssued
             /\ loads' \subseteq loads /\ loads' # loads
     /\ (lastOp = "loadFail" /\ StartStep)
          => /\ loadsIssued' = loadsIssued + 1
             /\ \E l \in loads' \ loads : l.id = loadsIssued']_vars

C8_Witness ==
  /\ lastOp = "loadFail"
  /\ engine = NoEngine
  /\ ~loadingStatus
  /\ loads = {}
  /\ engineLoadingProgress = ""

\* C9: at most one chat-completion request is outstanding in every
\* reachable state.
C9_OneCompletionInFlight == Cardinality(completions) <= 1

\* C10: when the load call rejects, the replay driver does not run: the
\* published log is unchanged and the Turn Processor is not invoked.
C10_NoReplayAfterFailedLoad ==
  [][lastOp' = "loadFail"
       => /\ messages' = messages
          /\ completions' = completions
          /\ processingMsg' = processingMsg]_vars

\* C11: whenever a chat-completion request is outstanding the busy flag is
\* true; the flag is false only when no completion is outstanding.
C11_BusyCoversCall == (completions # {}) => processingMsg

\* C12: at most one model-load request is outstanding at any time, and a
\* load that resolves never replaces an engine handle that is already set.
C12_OneLoadOneEngine ==
  [][/\ Cardinality(loads') <= 1
     /\ lastOp' = "loadOk" => engine = NoEngine]_vars

\* C13 (as stated): between the call of reset() and the state in which it
\* has cleared log, guard, progress, busy flag and engine handle no other
\* handler runs: while a reset is pending the only step is its completion.
C13_ResetUninterrupted ==
  [][purges > 0 => lastOp' \in {"reset", "resetAbort"}]_vars

\* C13 (amended): the call of reset() changes nothing before the awaited
\* cache purge, which is a third suspension point; once the purge resolves,
\* one step clears log, store, guard, progress, busy flag and engine handle
\* together and touches no call in flight.
C13_ResetClearsInOneStep ==
  [][/\ lastOp' = "resetCall"
          => /\ purges' = purges + 1
             /\ UNCHANGED <<engine, engineLoadingProgress, messages, processingMsg,
                            loadingStatus, messagesRepo, loads, completions>>
     /\ lastOp' = "reset"
          => /\ purges' = purges - 1
             /\ messages' = <<>>
             /\ messagesRepo' = Absent
             /\ ~loadingStatus'
             /\ engineLoadingProgress' = ""
             /\ ~processingMsg'
             /\ engine' = NoEngine
             /\ UNCHANGED <<loads, completions>>]_vars

C13_Witness ==
  /\ purges > 0
  /\ lastOp = "submit"
  /\ processingMsg
  /\ messagesRepo = JSONstringify(messages)

\* C14: if every load call and every completion call eventually resolves or
\* rejects, a set load guard is eventually clear again and a true busy flag
\* is eventually false again.
C14_FlagsReleased ==
  /\ loadingStatus ~> ~loadingStatus
  /\ processingMsg ~> ~processingMsg

C14_Witness ==
  /\ lastOp = "reply"
  /\ ~processingMsg
  /\ ~loadingStatus
  /\ completions = {}
  /\ loads = {}
  /\ purges = 0

\* C15: when a completion resolves, the published log afterwards is the log
\* published at that moment followed by exactly one message with the role of
\* the returned choice; every earlier entry keeps its position and content.
C15_ReplyAppendedAtEnd ==
  [][lastOp' = "reply"
       => /\ Len(messages') = Len(messages) + 1
          /\ SubSeq(messages', 1, Len(messages)) = messages
          /\ messages'[Len(messages')].role \in ReplyRoles
          /\ messages'[Len(messages')].content \in (ReplyContents \ {""}) \cup {Placeholder}]_vars

C15_Witness ==
  /\ lastOp = "reply"
  /\ completions # {}
  /\ Len(messages) = 2
  /\ messages[1].role = "user"
  /\ messages[2].role = "assistant"

\* C16: whenever the published log is non-empty, the item persisted under
\* the messages key is the serialization of exactly that log.
C16_StoreMirrorsLog ==
  Len(messages) > 0 => messagesRepo = JSONstringify(messages)

C16_Witness ==
  /\ lastOp = "submit"
  /\ Len(messages) = 3
  /\ messagesRepo = JSONstringify(messages)
  /\ LastIsUser(StoredLog(messagesRepo))

\* C17: after reset() has completed while a completion is still outstanding,
\* the log stays empty and the store absent until the user submits a new
\* message; the resolution of the earlier completion appends nothing.
C17_ResetNotUndone ==
  [][(messages = <<>> /\ messagesRepo = Absent /\ completions # {} /\ lastOp' # "submit")
       => (messages' = <<>> /\ messagesRepo' = Absent)]_vars

\* C18: whenever a completion started by a form submission is outstanding
\* and no reset has completed since (the engine it was sent to is still the
\* engine of the session), the persisted log ends with a user message.
C18_UserTurnDurable ==
  \A c \in completions : c.eng = engine => LastIsUser(StoredLog(messagesRepo))
====
